---- MODULE Spec2Model ----
(***************************************************************************)
(* Model of docker/app/florence_api.py: a FastAPI service with one         *)
(* resident Florence-2 model, a health probe and the caption endpoint.     *)
(*                                                                         *)
(* caption is declared `async def`, so every caption request is a          *)
(* coroutine on the single event loop of the process.  Its only            *)
(* suspension point is `await file.read()` (line 32); everything after it  *)
(* (decode, processor, alignment, model.generate, batch_decode,            *)
(* post_process_generation, return) is synchronous code that keeps the     *)
(* event-loop thread until the coroutine returns or raises.  health is a   *)
(* plain `def` and runs on a worker thread.                                *)
(*                                                                         *)
(* The second part models review_ui.py, the caption review tool: the       *)
(* module-level record list DATA shared by all browser sessions, the       *)
(* captions.json / captions.csv pair on disk, and nav, the handler behind  *)
(* the five navigation buttons.  It is a separate process; the two parts   *)
(* share no state and each has its own specification.                      *)
(***************************************************************************)
EXTENDS Integers, Sequences, FiniteSets, TLC

\* ------------------------------------------------------------------ bounds
NumReqs == 2
Reqs == 1..NumReqs
\* Review tool: records in captions.json, length of a typed caption,
\* browser sessions.
MaxRecords == 2
MaxTextLen == 2
NumSessions == 2
Sessions == 1..NumSessions

\* ------------------------------------------------------- program constants
DEFAULT_MODEL_ID == "microsoft/Florence-2-base"
DEFAULT_TASK == "<CAPTION>"
MAX_NEW_TOKENS == 256
NUM_BEAMS == 3

\* ---------------------------------------------------- environment / inputs
\* Values of the FLORENCE_MODEL_ID environment variable ("unset" = absent).
EnvValues == {"unset", "", "org/florence-ft"}
\* Uploaded byte blobs: two decodable images and one non-image payload.
Payloads == {"pngA", "jpgB", "junk"}
\* The task form field: absent, or a supplied string.
NoTask == "absent"
FormTasks == {NoTask, "<OD>"}

VARIABLES
  MODEL_ID,       \* module global, line 9
  DEVICE,         \* module global, line 11
  DTYPE,          \* module global, line 12
  model,          \* the resident model: [loaded, id, device, dtype]
  model_buf,      \* tensors the model is computing on inside generate
  pc,             \* pc[r]: position of request r inside caption
  req,            \* req[r]: the multipart form of request r
  task,           \* local `task` of request r
  image,          \* local `image`
  inputs,         \* local `inputs`
  cast_inputs,    \* local `cast_inputs`
  generated_ids,  \* local `generated_ids`
  generated_text, \* local `generated_text`
  parsed,         \* local `parsed`
  resp,           \* HTTP response of request r
  calls,          \* calls[r]: external calls made so far for request r
  health_resp,    \* last response of GET /health
  DATA,           \* review_ui module global, line 31
  json_file,      \* the file at JSON_PATH
  csv_file,       \* the file at CSV_PATH
  ui,             \* ui[s]: state_holder, caption box and buttons of session s
  frame,          \* the nav call in progress
  alive,          \* the review process is running
  committed,      \* final captions as of the last completed nav call
  author          \* author[i]: session whose typed edit record i holds

vars == <<MODEL_ID, DEVICE, DTYPE, model, model_buf, pc, req, task, image,
          inputs, cast_inputs, generated_ids, generated_text, parsed, resp,
          calls, health_resp, DATA, json_file, csv_file, ui, frame, alive,
          committed, author>>

review == <<DATA, json_file, csv_file, ui, frame, alive, committed, author>>

globals == <<MODEL_ID, DEVICE, DTYPE, model>>
locals == <<task, image, inputs, cast_inputs, generated_ids, generated_text,
            parsed>>

\* ------------------------------------------------------------ empty values
NoImage == [pixels |-> "", size |-> <<0, 0>>]
NoBundle == <<>>
NoIds == <<>>
NoText == [special |-> FALSE, tokens |-> <<>>]
NoResult == [kind |-> "none", value |-> <<>>, size |-> <<0, 0>>]
NoResp == [status |-> 0, model_id |-> "", task |-> "", result |-> NoResult,
           detail |-> <<>>]
NoForm == [payload |-> "", task |-> NoTask]
NoBuf == [input_ids |-> "", pixel_values |-> ""]
NoHealth == [status |-> "", model_id |-> "", device |-> ""]
NoFile == [complete |-> FALSE, rows |-> <<>>]
NoFrame == [pc |-> "idle", s |-> 0, direction |-> "", idx |-> 0,
            caption_text |-> <<>>, edited |-> FALSE, row |-> 0]
NoCommit == [done |-> FALSE, finals |-> <<>>]
AllOn == <<TRUE, TRUE, TRUE, TRUE, TRUE>>
AllOff == <<FALSE, FALSE, FALSE, FALSE, FALSE>>
\* A page that has not run its load event: gr.State(0), an empty Textbox
\* and five buttons that are interactive by default (lines 220-232).
NewSession(idx) ==
  [idx |-> idx, caption |-> <<>>, buttons |-> AllOn, loaded |-> FALSE]

\* review_ui.py as imported and not started (lines 31-34).
ReviewNotStarted ==
  /\ DATA = <<>>
  /\ json_file = NoFile
  /\ csv_file = NoFile
  /\ ui = [s \in Sessions |-> NewSession(0)]
  /\ frame = NoFrame
  /\ alive = FALSE
  /\ committed = NoCommit
  /\ author = <<>>

\* ----------------------------------------------------------------- startup
\* os.getenv("FLORENCE_MODEL_ID", "microsoft/Florence-2-base")
GetEnvModelId(env) == IF env = "unset" THEN DEFAULT_MODEL_ID ELSE env

\* "cuda" if torch.cuda.is_available() else "cpu"
SelectDevice(cuda_available) == IF cuda_available THEN "cuda" ELSE "cpu"

SelectDtypeAlwaysHalf(device) == "float16"

\* torch.float16 if DEVICE == "cuda" else torch.float32
SelectDtype(device) == IF device = "cuda" THEN "float16" ELSE "float32"

\* from_pretrained(MODEL_ID, torch_dtype=DTYPE).to(DEVICE); an empty
\* identifier names no repository, the load raises and the module never
\* finishes importing: the service does not come up.
LoadModel(id, device, dtype) ==
  [loaded |-> id # "", id |-> id, device |-> device, dtype |-> dtype]

Init ==
  /\ \E env \in EnvValues, cuda \in BOOLEAN :
       /\ MODEL_ID = GetEnvModelId(env)
       /\ DEVICE = SelectDevice(cuda)
       /\ DTYPE = SelectDtype(SelectDevice(cuda))
       /\ model = LoadModel(GetEnvModelId(env), SelectDevice(cuda),
                            SelectDtype(SelectDevice(cuda)))
  /\ model_buf = NoBuf
  /\ pc = [r \in Reqs |-> "idle"]
  /\ req = [r \in Reqs |-> NoForm]
  /\ task = [r \in Reqs |-> ""]
  /\ image = [r \in Reqs |-> NoImage]
  /\ inputs = [r \in Reqs |-> NoBundle]
  /\ cast_inputs = [r \in Reqs |-> NoBundle]
  /\ generated_ids = [r \in Reqs |-> NoIds]
  /\ generated_text = [r \in Reqs |-> NoText]
  /\ parsed = [r \in Reqs |-> NoResult]
  /\ resp = [r \in Reqs |-> NoResp]
  /\ calls = [r \in Reqs |-> <<>>]
  /\ health_resp = NoHealth
  /\ ReviewNotStarted

\* The app serves requests only if the module imported, i.e. the load
\* at lines 16-22 did not raise.
Serving == model.loaded

\* ------------------------------------------------------ Validator/Decoder
\* Image.open(io.BytesIO(payload)): the codecs identify the blob or raise.
Decodable(payload) == payload \in {"pngA", "jpgB"}

\* Image.open(...).convert("RGB"): an RGB raster with known width/height.
DecodeImage(payload) ==
  IF payload = "pngA" THEN [pixels |-> "rgbA", size |-> <<2, 1>>]
  ELSE IF payload = "jpgB" THEN [pixels |-> "rgbB", size |-> <<1, 2>>]
  ELSE NoImage

\* str(ex) of the exception raised inside the try block.
DecodeErrorMessage(payload) == "cannot identify image file"
ReadErrorMessage == "error reading upload"

\* HTTPException(status_code=400, detail=f"Invalid image: {ex}")
InvalidImageResponseAsServerError(msg) ==
  [status |-> 500, model_id |-> "", task |-> "", result |-> NoResult,
   detail |-> <<"Invalid image: ", msg>>]

InvalidImageResponse(msg) ==
  [status |-> 400, model_id |-> "", task |-> "", result |-> NoResult,
   detail |-> <<"Invalid image: ", msg>>]

\* An exception that leaves the handler uncaught: the framework under
\* @app.post answers 500 with its generic message.
UnhandledAsClientError ==
  [status |-> 400, model_id |-> "", task |-> "", result |-> NoResult,
   detail |-> <<"Internal Server Error">>]

UnhandledResponse ==
  [status |-> 500, model_id |-> "", task |-> "", result |-> NoResult,
   detail |-> <<"Internal Server Error">>]

\* task: str = Form(DEFAULT_TASK)
FormTaskIgnored(form_task) == DEFAULT_TASK

FormTask(form_task) == IF form_task = NoTask THEN DEFAULT_TASK ELSE form_task

\* ------------------------------------------------------------- Tensorizer
FloatDtypes == {"float16", "float32", "float64"}

\* torch.is_floating_point(value)
is_floating_point(value) == value.dtype \in FloatDtypes

\* Key sets and element kinds the external processor may return:
\* the Florence-2 bundle, a bundle without attention mask and with double
\* precision pixels, and two bundles that lack a required key.
ProcessorShapes ==
  { ("input_ids" :> "int64") @@ ("pixel_values" :> "float32")
       @@ ("attention_mask" :> "int64"),
    ("input_ids" :> "int32") @@ ("pixel_values" :> "float64"),
    ("pixel_values" :> "float32") @@ ("attention_mask" :> "bool"),
    ("input_ids" :> "int64") }

\* What each named array is computed from.
TensorData(key, t, img) == IF key = "pixel_values" THEN img.pixels ELSE t

\* processor(text=task, images=image, return_tensors="pt"): host tensors.
ProcessorOutput(t, img, shape) ==
  [k \in DOMAIN shape |->
     [dtype |-> shape[k], device |-> "cpu", data |-> TensorData(k, t, img)]]

\* value.to(device=DEVICE, dtype=DTYPE) / value.to(device=DEVICE)
AlignTensorDeviceOnly(value, device, dtype) ==
  [value EXCEPT !.device = device]

AlignTensor(value, device, dtype) ==
  IF is_floating_point(value)
    THEN [value EXCEPT !.device = device, !.dtype = dtype]
    ELSE [value EXCEPT !.device = device]

\* cast_inputs[key] = ... : the dict with one more key.
SetKey(d, key, value) ==
  [k \in (DOMAIN d) \cup {key} |-> IF k = key THEN value ELSE d[k]]

\* ------------------------------------------------------ Generation Engine
RequiredKeys == {"input_ids", "pixel_values"}

\* The model computes only on tensors that co-reside with its weights and
\* whose floating-point precision equals that of the weights.
Compatible(bundle, m) ==
  \A k \in RequiredKeys \cap DOMAIN bundle :
     /\ bundle[k].device = m.device
     /\ is_floating_point(bundle[k]) => bundle[k].dtype = m.dtype

\* The best beam for the tensors the model holds.
BestBeam(buf) == <<"</s>", "<s>", buf.input_ids, buf.pixel_values, "</s>">>

\* model.generate(..., max_new_tokens=256, do_sample=False, num_beams=3):
\* deterministic beam search, one sequence per request (a batch of one),
\* the decoder start token followed by at most max_new_tokens tokens.
Generate(buf, max_new_tokens, num_beams) ==
  << SubSeq(BestBeam(buf), 1,
            IF Len(BestBeam(buf)) < max_new_tokens + 1
              THEN Len(BestBeam(buf)) ELSE max_new_tokens + 1) >>

SpecialTokens == {"<s>", "</s>"}
IsNotSpecial(tok) == tok \notin SpecialTokens

\* --------------------------------------------------------- Post-Processor
\* processor.batch_decode(generated_ids, skip_special_tokens=...)
batch_decode(ids, skip_special_tokens) ==
  [i \in DOMAIN ids |->
     [special |-> ~skip_special_tokens,
      tokens |-> IF skip_special_tokens
                   THEN SelectSeq(ids[i], IsNotSpecial) ELSE ids[i]]]

\* processor.post_process_generation(text, task=task, image_size=size):
\* the external parser, keyed on the task and the structural markers.
post_process_generation(text, t, size) ==
  IF t = DEFAULT_TASK
    THEN [kind |-> "text",
          value |-> SelectSeq(text.tokens, IsNotSpecial), size |-> <<0, 0>>]
    ELSE [kind |-> "regions",
          value |-> SelectSeq(text.tokens, IsNotSpecial), size |-> size]

\* The parser needs the markers of the raw decode.
Parseable(text) == text.special

\* {"model_id": MODEL_ID, "task": task, "result": parsed}
SuccessResponse(id, t, result) ==
  [status |-> 200, model_id |-> id, task |-> t, result |-> result,
   detail |-> <<>>]

\* The result a request with this image and task gets when it runs alone.
AloneResult(payload, t) ==
  post_process_generation(
    batch_decode(Generate([input_ids |-> t,
                           pixel_values |-> DecodeImage(payload).pixels],
                          MAX_NEW_TOKENS, NUM_BEAMS),
                 FALSE)[1],
    t, DecodeImage(payload).size)

\* ------------------------------------------------------------ Service Front
\* Positions at which a caption coroutine is executing synchronous code on
\* the event-loop thread (after line 33 and before it returns or raises).
SyncPcs == {"processor", "align", "generate", "generating", "batch_decode",
            "post_process", "return"}

\* A loop that is released while model.generate runs.
LoopIdleDuringGenerate == \A q \in Reqs : pc[q] \notin SyncPcs \ {"generating"}

\* The event-loop thread is executing no caption coroutine.
LoopIdle == \A q \in Reqs : pc[q] \notin SyncPcs

\* A handler declared `def` would run on a worker thread of its own.
CanRunOnWorkerThread(r) == TRUE

\* `async def caption`: the coroutine of r is entered or resumed only by the
\* event loop, which runs one coroutine at a time.
CanRun(r) == LoopIdle

Call(fn, arg) == [fn |-> fn, arg |-> arg]

\* The coroutine frame of r ends with `response`; the request and the
\* locals of the frame are dropped.
Finish(r, response) ==
  /\ pc' = [pc EXCEPT ![r] = "done"]
  /\ resp' = [resp EXCEPT ![r] = response]
  /\ req' = [req EXCEPT ![r] = NoForm]
  /\ task' = [task EXCEPT ![r] = ""]
  /\ image' = [image EXCEPT ![r] = NoImage]
  /\ inputs' = [inputs EXCEPT ![r] = NoBundle]
  /\ cast_inputs' = [cast_inputs EXCEPT ![r] = NoBundle]
  /\ generated_ids' = [generated_ids EXCEPT ![r] = NoIds]
  /\ generated_text' = [generated_text EXCEPT ![r] = NoText]
  /\ parsed' = [parsed EXCEPT ![r] = NoResult]

\* The failure of a call is terminal for the request.
FailRetrying(r, response, retry_pc) ==
  /\ pc' = [pc EXCEPT ![r] = retry_pc]
  /\ UNCHANGED <<resp, req, locals>>

Fail(r, response, retry_pc) == Finish(r, response)

\* GET /health, lines 24-26.
HealthBodyDegraded == [status |-> "error", model_id |-> "", device |-> DEVICE]

HealthBody == [status |-> "ok", model_id |-> MODEL_ID, device |-> DEVICE]

health ==
  /\ Serving
  /\ health_resp' = HealthBody
  /\ UNCHANGED <<review, globals, model_buf, pc, req, locals, resp, calls>>

\* POST /caption arrives: the form is bound (line 30) and the coroutine runs
\* up to `await file.read()` (line 32).
Submit(r, payload, form_task) ==
  /\ Serving
  /\ pc[r] = "idle"
  /\ CanRun(r)
  /\ pc' = [pc EXCEPT ![r] = "read"]
  /\ req' = [req EXCEPT ![r] = [payload |-> payload, task |-> form_task]]
  /\ task' = [task EXCEPT ![r] = FormTask(form_task)]
  /\ calls' = [calls EXCEPT ![r] = <<Call("read", "")>>]
  /\ UNCHANGED <<review, globals, model_buf, image, inputs, cast_inputs,
                 generated_ids, generated_text, parsed, resp, health_resp>>

\* file.read() raises; lines 34-35.
ReadFail(r) ==
  /\ pc[r] = "read"
  /\ CanRun(r)
  /\ Finish(r, InvalidImageResponse(ReadErrorMessage))
  /\ UNCHANGED <<review, globals, model_buf, calls, health_resp>>

\* Image.open(...).convert("RGB") raises; lines 33-35.
DecodeFail(r) ==
  /\ pc[r] = "read"
  /\ CanRun(r)
  /\ ~Decodable(req[r].payload)
  /\ calls' = [calls EXCEPT ![r] = Append(@, Call("decode", ""))]
  /\ Finish(r, InvalidImageResponse(DecodeErrorMessage(req[r].payload)))
  /\ UNCHANGED <<review, globals, model_buf, health_resp>>

\* Lines 32-33 succeed.
DecodeOk(r) ==
  /\ pc[r] = "read"
  /\ CanRun(r)
  /\ Decodable(req[r].payload)
  /\ image' = [image EXCEPT ![r] = DecodeImage(req[r].payload)]
  /\ calls' = [calls EXCEPT ![r] = Append(@, Call("decode", ""))]
  /\ pc' = [pc EXCEPT ![r] = "processor"]
  /\ UNCHANGED <<review, globals, model_buf, req, task, inputs, cast_inputs,
                 generated_ids, generated_text, parsed, resp, health_resp>>

\* Line 37, then line 39.
ProcessorOk(r, shape) ==
  /\ pc[r] = "processor"
  /\ inputs' = [inputs EXCEPT ![r] = ProcessorOutput(task[r], image[r], shape)]
  /\ cast_inputs' = [cast_inputs EXCEPT ![r] = NoBundle]
  /\ calls' = [calls EXCEPT ![r] = Append(@, Call("processor", task[r]))]
  /\ pc' = [pc EXCEPT ![r] = "align"]
  /\ UNCHANGED <<review, globals, model_buf, req, task, image, generated_ids,
                 generated_text, parsed, resp, health_resp>>

\* Line 37 raises.
ProcessorFail(r) ==
  /\ pc[r] = "processor"
  /\ calls' = [calls EXCEPT ![r] = Append(@, Call("processor", task[r]))]
  /\ Fail(r, UnhandledResponse, "processor")
  /\ UNCHANGED <<review, globals, model_buf, health_resp>>

\* One iteration of the loop at lines 40-44.
AlignKey(r, key) ==
  /\ pc[r] = "align"
  /\ key \in (DOMAIN inputs[r]) \ (DOMAIN cast_inputs[r])
  /\ cast_inputs' = [cast_inputs EXCEPT ![r] =
        SetKey(@, key, AlignTensor(inputs[r][key], DEVICE, DTYPE))]
  /\ UNCHANGED <<review, globals, model_buf, pc, req, task, image, inputs,
                 generated_ids, generated_text, parsed, resp, calls,
                 health_resp>>

\* A loop that stops after its first iteration.
LoopExhaustedAfterFirstKey(r) == cast_inputs[r] # NoBundle

\* `for key, value in inputs.items()` has no key left to visit.
LoopExhausted(r) == DOMAIN cast_inputs[r] = DOMAIN inputs[r]

\* value.to(...) raises at lines 42/44 (e.g. the device is out of memory).
AlignFail(r) ==
  /\ pc[r] = "align"
  /\ ~LoopExhausted(r)
  /\ Fail(r, UnhandledResponse, "align")
  /\ UNCHANGED <<review, globals, model_buf, calls, health_resp>>

\* The loop is exhausted; line 45.
AlignDone(r) ==
  /\ pc[r] = "align"
  /\ LoopExhausted(r)
  /\ inputs' = [inputs EXCEPT ![r] = cast_inputs[r]]
  /\ pc' = [pc EXCEPT ![r] = "generate"]
  /\ UNCHANGED <<review, globals, model_buf, req, task, image, cast_inputs,
                 generated_ids, generated_text, parsed, resp, calls,
                 health_resp>>

\* A lookup that substitutes a default for a missing key (dict.get).
KeysPresentOrDefaulted(bundle) == TRUE

\* Both subscripts at lines 48-49 find their key.
KeysPresent(bundle) == RequiredKeys \subseteq DOMAIN bundle

\* The data of bundle[key].
DataAt(bundle, key) == IF key \in DOMAIN bundle THEN bundle[key].data ELSE ""

\* inputs["input_ids"] / inputs["pixel_values"] raises KeyError, lines 48-49.
GenerateKeyError(r) ==
  /\ pc[r] = "generate"
  /\ ~KeysPresent(inputs[r])
  /\ Fail(r, UnhandledResponse, "generate")
  /\ UNCHANGED <<review, globals, model_buf, calls, health_resp>>

\* model.generate is entered with the two named tensors, lines 47-53.
GenerateBegin(r) ==
  /\ pc[r] = "generate"
  /\ KeysPresent(inputs[r])
  /\ model_buf' = [input_ids |-> DataAt(inputs[r], "input_ids"),
                   pixel_values |-> DataAt(inputs[r], "pixel_values")]
  /\ calls' = [calls EXCEPT ![r] = Append(@, Call("generate", ""))]
  /\ pc' = [pc EXCEPT ![r] = "generating"]
  /\ UNCHANGED <<review, globals, req, locals, resp, health_resp>>

\* model.generate returns the sequence computed from what the model holds.
GenerateEnd(r) ==
  /\ pc[r] = "generating"
  /\ Compatible(inputs[r], model)
  /\ generated_ids' = [generated_ids EXCEPT ![r] = Generate(model_buf, MAX_NEW_TOKENS, NUM_BEAMS)]
  /\ model_buf' = NoBuf
  /\ pc' = [pc EXCEPT ![r] = "batch_decode"]
  /\ UNCHANGED <<review, globals, req, task, image, inputs, cast_inputs,
                 generated_text, parsed, resp, calls, health_resp>>

\* model.generate raises (exhausted accelerator, mismatched tensors).
GenerateFail(r) ==
  /\ pc[r] = "generating"
  /\ model_buf' = NoBuf
  /\ Fail(r, UnhandledResponse, "generate")
  /\ UNCHANGED <<review, globals, calls, health_resp>>

\* Line 55.
BatchDecodeOk(r) ==
  /\ pc[r] = "batch_decode"
  /\ generated_text' = [generated_text EXCEPT ![r] =
                          batch_decode(generated_ids[r], FALSE)[1]]
  /\ calls' = [calls EXCEPT ![r] = Append(@, Call("batch_decode", ""))]
  /\ pc' = [pc EXCEPT ![r] = "post_process"]
  /\ UNCHANGED <<review, globals, model_buf, req, task, image, inputs, cast_inputs,
                 generated_ids, parsed, resp, health_resp>>

\* Line 55 raises.
BatchDecodeFail(r) ==
  /\ pc[r] = "batch_decode"
  /\ calls' = [calls EXCEPT ![r] = Append(@, Call("batch_decode", ""))]
  /\ Fail(r, UnhandledResponse, "batch_decode")
  /\ UNCHANGED <<review, globals, model_buf, health_resp>>

\* Line 56.
PostProcessOk(r) ==
  /\ pc[r] = "post_process"
  /\ Parseable(generated_text[r])
  /\ parsed' = [parsed EXCEPT ![r] =
        post_process_generation(generated_text[r], task[r], image[r].size)]
  /\ calls' = [calls EXCEPT ![r] = Append(@, Call("post_process", task[r]))]
  /\ pc' = [pc EXCEPT ![r] = "return"]
  /\ UNCHANGED <<review, globals, model_buf, req, task, image, inputs, cast_inputs,
                 generated_ids, generated_text, resp, health_resp>>

\* Line 56 raises: the external parser rejects the text or the task.
PostProcessFail(r) ==
  /\ pc[r] = "post_process"
  /\ calls' = [calls EXCEPT ![r] = Append(@, Call("post_process", task[r]))]
  /\ Fail(r, UnhandledResponse, "post_process")
  /\ UNCHANGED <<review, globals, model_buf, health_resp>>

\* Lines 58-62.
Return(r) ==
  /\ pc[r] = "return"
  /\ Finish(r, SuccessResponse(MODEL_ID, task[r], parsed[r]))
  /\ UNCHANGED <<review, globals, model_buf, calls, health_resp>>

Next ==
  \/ health
  \/ \E r \in Reqs :
       \/ \E payload \in Payloads, form_task \in FormTasks :
            Submit(r, payload, form_task)
       \/ ReadFail(r)
       \/ DecodeFail(r)
       \/ DecodeOk(r)
       \/ \E shape \in ProcessorShapes : ProcessorOk(r, shape)
       \/ ProcessorFail(r)
       \/ \E key \in DOMAIN inputs[r] : AlignKey(r, key)
       \/ AlignFail(r)
       \/ AlignDone(r)
       \/ GenerateKeyError(r)
       \/ GenerateBegin(r)
       \/ GenerateEnd(r)
       \/ GenerateFail(r)
       \/ BatchDecodeOk(r)
       \/ BatchDecodeFail(r)
       \/ PostProcessOk(r)
       \/ PostProcessFail(r)
       \/ Return(r)

Spec == Init /\ [][Next]_vars

\* ---------------------------------------------------------------------------
\* N concurrent requests with decodable images against collaborators that do
\* not fail: the scenario of the concurrency test of the service.
ValidPayloads == {p \in Payloads : Decodable(p)}
FullShapes == {s \in ProcessorShapes : RequiredKeys \subseteq DOMAIN s}

StepOk(r) ==
  \/ DecodeOk(r)
  \/ \E shape \in FullShapes : ProcessorOk(r, shape)
  \/ \E key \in DOMAIN inputs[r] : AlignKey(r, key)
  \/ AlignDone(r)
  \/ GenerateBegin(r)
  \/ GenerateEnd(r)
  \/ BatchDecodeOk(r)
  \/ PostProcessOk(r)
  \/ Return(r)

NextConcurrent ==
  \E r \in Reqs :
       \/ \E payload \in ValidPayloads, form_task \in FormTasks :
            Submit(r, payload, form_task)
       \/ StepOk(r)

\* The event loop runs every ready coroutine (FIFO ready queue), and a
\* running coroutine continues until it suspends or ends.
SpecConcurrent ==
  Init /\ [][NextConcurrent]_vars /\ \A r \in Reqs : WF_vars(StepOk(r))

\* ===========================================================================
\* review_ui.py
\* ===========================================================================
\* Characters of a caption; " " stands for any whitespace character.
Chars == {" ", "a"}
Whitespace == {" "}
\* What the user can type into the caption Textbox.
CaptionTexts == UNION {[1..n -> Chars] : n \in 0..MaxTextLen}
\* The user leaves the Textbox as the last response filled it.
Unedited == <<"unedited">>
\* Values of the state_holder argument of nav and load_first.
IdxRange == (0 - 1)..MaxRecords
Directions == {"first", "prev", "next", "last", "end"}

\* str.lstrip / str.rstrip / str.strip
RECURSIVE lstrip(_)
lstrip(text) ==
  IF text = <<>> THEN <<>>
  ELSE IF Head(text) \in Whitespace THEN lstrip(Tail(text)) ELSE text

RECURSIVE rstrip(_)
rstrip(text) ==
  IF text = <<>> THEN <<>>
  ELSE IF text[Len(text)] \in Whitespace
         THEN rstrip(SubSeq(text, 1, Len(text) - 1)) ELSE text

stripLeftOnly(text) == lstrip(text)

strip(text) == rstrip(lstrip(text))

\* dict.get(key, "")
Get(row, key) == IF key \in DOMAIN row THEN row[key] ELSE <<>>

\* dict.setdefault(key, value) / row[key] = value
SetDefault(row, key, value) ==
  IF key \in DOMAIN row THEN row
  ELSE [k \in (DOMAIN row) \cup {key} |-> IF k = key THEN value ELSE row[k]]

SetItemRaw(row, key, value) ==
  [k \in (DOMAIN row) \cup {"raw_caption"} |->
     IF k = "raw_caption" THEN value ELSE row[k]]

SetItem(row, key, value) ==
  [k \in (DOMAIN row) \cup {key} |-> IF k = key THEN value ELSE row[k]]

\* The i-th item of captions.json as the captioning run left it: a full
\* record, a record without image and final_caption whose raw caption ends
\* in whitespace, a record with an image only.
Item(i) ==
  IF i % 3 = 1
    THEN ("image" :> <<"x">>) @@ ("raw_caption" :> <<"r">>)
           @@ ("final_caption" :> <<"a", "a">>)
  ELSE IF i % 3 = 2
    THEN ("raw_caption" :> <<"q", " ">>)
  ELSE ("image" :> <<"z">>)

\* load_captions, lines 37-44.
load_captions(items) ==
  [i \in DOMAIN items |->
     SetDefault(SetDefault(items[i], "raw_caption", <<>>), "final_caption",
                Get(SetDefault(items[i], "raw_caption", <<>>), "raw_caption"))]

\* A file opened with mode "w" (truncated) and not yet closed.
Truncated == [complete |-> FALSE, rows |-> <<>>]

\* json.dump(data, f) without leaving the with block.
DumpedUnclosed(data) == [complete |-> FALSE, rows |-> data]

\* json.dump(data, f) and the end of the with block, lines 48-49.
Dumped(data) == [complete |-> TRUE, rows |-> data]

\* A row that puts the raw caption into the final_caption column.
CsvRowOfRawTwice(row) ==
  ("image" :> Get(row, "image")) @@ ("raw_caption" :> Get(row, "raw_caption"))
    @@ ("final_caption" :> Get(row, "raw_caption"))

\* The dict given to writer.writerow, lines 54-60.
CsvRowOf(row) ==
  ("image" :> Get(row, "image")) @@ ("raw_caption" :> Get(row, "raw_caption"))
    @@ ("final_caption" :> Get(row, "final_caption"))

\* max(0, idx) is missing.
clamp_indexNoLowerBound(idx, length) ==
  IF length = 0 THEN 0
  ELSE IF idx < length - 1 THEN idx ELSE length - 1

\* clamp_index, lines 63-66.
clamp_index(idx, length) ==
  IF length = 0 THEN 0
  ELSE IF (IF idx < length - 1 THEN idx ELSE length - 1) > 0
         THEN (IF idx < length - 1 THEN idx ELSE length - 1)
         ELSE 0

\* DATA[idx] with a Python index: a negative idx counts from the end.
PyAt(data, idx) == IF idx < 0 THEN data[Len(data) + idx + 1] ELSE data[idx + 1]
PyPos(data, idx) == IF idx < 0 THEN Len(data) + idx + 1 ELSE idx + 1

\* The index nav moves to, lines 114-125 (end keeps the record).
Destination(direction, idx, length) ==
  IF direction = "next" THEN clamp_index(idx + 1, length)
  ELSE IF direction = "prev" THEN clamp_index(idx - 1, length)
  ELSE IF direction = "first" THEN 0
  ELSE IF direction = "last" THEN length - 1
  ELSE idx

\* Buttons that stay interactive after End Task.
NavButtonsAlwaysOn(direction) == AllOn

\* btn_off (lines 124, 132-136) or btn_on (lines 143, 150-154).
NavButtons(direction) == IF direction = "end" THEN AllOff ELSE AllOn

\* Position of a direction's button among the outputs.
ButtonOf(direction) ==
  IF direction = "first" THEN 1
  ELSE IF direction = "prev" THEN 2
  ELSE IF direction = "next" THEN 3
  ELSE IF direction = "last" THEN 4
  ELSE 5

Finals(data) == [i \in DOMAIN data |-> Get(data[i], "final_caption")]

\* The review process after main() has loaded captions.json (lines 208-212),
\* before any page is opened.
ReviewStarted ==
  /\ \E n \in 0..MaxRecords :
       /\ json_file = Dumped([i \in 1..n |-> Item(i)])
       /\ DATA = load_captions([i \in 1..n |-> Item(i)])
       /\ author = [i \in 1..n |-> 0]
  /\ csv_file = NoFile
  /\ \E idx \in IdxRange : ui = [s \in Sessions |-> NewSession(idx)]
  /\ frame = NoFrame
  /\ alive = TRUE
  /\ committed = NoCommit

\* The captioning service is another process; it is not running.
CaptionNotStarted ==
  /\ MODEL_ID = DEFAULT_MODEL_ID
  /\ DEVICE = "cpu"
  /\ DTYPE = "float32"
  /\ model = [loaded |-> FALSE, id |-> "", device |-> "cpu",
              dtype |-> "float32"]
  /\ model_buf = NoBuf
  /\ pc = [r \in Reqs |-> "idle"]
  /\ req = [r \in Reqs |-> NoForm]
  /\ task = [r \in Reqs |-> ""]
  /\ image = [r \in Reqs |-> NoImage]
  /\ inputs = [r \in Reqs |-> NoBundle]
  /\ cast_inputs = [r \in Reqs |-> NoBundle]
  /\ generated_ids = [r \in Reqs |-> NoIds]
  /\ generated_text = [r \in Reqs |-> NoText]
  /\ parsed = [r \in Reqs |-> NoResult]
  /\ resp = [r \in Reqs |-> NoResp]
  /\ calls = [r \in Reqs |-> <<>>]
  /\ health_resp = NoHealth

InitReview == CaptionNotStarted /\ ReviewStarted

caption_vars == <<globals, model_buf, pc, req, locals, resp, calls,
                  health_resp>>

\* get_record, lines 69-73, for a non-empty DATA: the clamped index.
get_record_idx(idx) == clamp_index(idx, Len(DATA))

\* What the outputs of a response put on the page of a session.
Page(idx, caption, buttons, loaded) ==
  [idx |-> idx, caption |-> caption, buttons |-> buttons, loaded |-> loaded]

Running == alive /\ frame.pc = "idle"

\* demo.load -> load_first(idx), lines 179-196.
load_first(s) ==
  /\ Running
  /\ ~ui[s].loaded
  /\ ui' = [ui EXCEPT ![s] =
       IF DATA = <<>>
         THEN Page(ui[s].idx, <<>>, AllOff, TRUE)
         ELSE Page(get_record_idx(ui[s].idx),
                   Get(PyAt(DATA, get_record_idx(ui[s].idx)), "final_caption"),
                   AllOn, TRUE)]
  /\ UNCHANGED <<caption_vars, DATA, json_file, csv_file, frame, alive,
                 committed, author>>

\* nav on an empty DATA, lines 95-107.
NavEmpty(s, direction, typed) ==
  /\ Running
  /\ ui[s].buttons[ButtonOf(direction)]
  /\ DATA = <<>>
  /\ ui' = [ui EXCEPT ![s] = Page(ui[s].idx, <<>>, AllOff, TRUE)]
  /\ UNCHANGED <<caption_vars, DATA, json_file, csv_file, frame, alive,
                 committed, author>>

\* nav on a non-empty DATA, lines 110-111: the caption of the page is stored
\* into the record at the clamped index; save_files is entered.
NavStore(s, direction, typed) ==
  /\ Running
  /\ ui[s].buttons[ButtonOf(direction)]
  /\ DATA # <<>>
  /\ LET text == IF typed = Unedited THEN ui[s].caption ELSE typed
         idx == get_record_idx(ui[s].idx)
         pos == PyPos(DATA, idx)
     IN /\ DATA' = [DATA EXCEPT ![pos] =
                      SetItem(@, "final_caption", strip(text))]
        /\ frame' = [pc |-> "json_open", s |-> s, direction |-> direction,
                     idx |-> idx, caption_text |-> text,
                     edited |-> (typed # Unedited), row |-> 0]
        /\ author' = IF typed # Unedited THEN [author EXCEPT ![pos] = s]
                     ELSE author
  /\ UNCHANGED <<caption_vars, json_file, csv_file, ui, alive, committed>>

\* open(json_path, "w"), line 48. caption_text is not read after line 111.
JsonOpen ==
  /\ alive
  /\ frame.pc = "json_open"
  /\ json_file' = Truncated
  /\ frame' = [frame EXCEPT !.pc = "json_dump", !.caption_text = <<>>,
                            !.edited = FALSE]
  /\ UNCHANGED <<caption_vars, DATA, csv_file, ui, alive, committed, author>>

\* json.dump and the close of the file, line 49.
JsonDump ==
  /\ alive
  /\ frame.pc = "json_dump"
  /\ json_file' = Dumped(DATA)
  /\ frame' = [frame EXCEPT !.pc = "csv_open"]
  /\ UNCHANGED <<caption_vars, DATA, csv_file, ui, alive, committed, author>>

\* open(csv_path, "w") and writeheader, lines 50-52.
CsvOpen ==
  /\ alive
  /\ frame.pc = "csv_open"
  /\ csv_file' = Truncated
  /\ frame' = [frame EXCEPT !.pc = "csv_rows", !.row = 1]
  /\ UNCHANGED <<caption_vars, DATA, json_file, ui, alive, committed, author>>

\* One iteration of the loop at lines 53-60.
CsvRow ==
  /\ alive
  /\ frame.pc = "csv_rows"
  /\ frame.row <= Len(DATA)
  /\ csv_file' = [csv_file EXCEPT
                    !.rows = Append(@, CsvRowOf(DATA[frame.row]))]
  /\ frame' = [frame EXCEPT !.row = @ + 1]
  /\ UNCHANGED <<caption_vars, DATA, json_file, ui, alive, committed, author>>

\* The end of the with block of the CSV file; save_files returns.
CsvClose ==
  /\ alive
  /\ frame.pc = "csv_rows"
  /\ frame.row > Len(DATA)
  /\ csv_file' = [csv_file EXCEPT !.complete = TRUE]
  /\ frame' = [frame EXCEPT !.pc = "respond", !.row = 0]
  /\ UNCHANGED <<caption_vars, DATA, json_file, ui, alive, committed, author>>

\* Lines 114-155: the destination index, its record and the outputs.
NavReturn ==
  /\ alive
  /\ frame.pc = "respond"
  /\ LET idx == get_record_idx(
                  Destination(frame.direction, frame.idx, Len(DATA)))
     IN ui' = [ui EXCEPT ![frame.s] =
                 Page(idx, Get(PyAt(DATA, idx), "final_caption"),
                      NavButtons(frame.direction), TRUE)]
  /\ committed' = [done |-> TRUE, finals |-> Finals(DATA)]
  /\ frame' = NoFrame
  /\ UNCHANGED <<caption_vars, DATA, json_file, csv_file, alive, author>>

\* The process is killed: the files stay as they are, the sessions (the
\* gr.State values of the server) are gone. DATA and frame are kept to tell
\* what the killed process was doing.
Interrupt ==
  /\ alive
  /\ alive' = FALSE
  /\ ui' = [s \in Sessions |-> NewSession(0)]
  /\ UNCHANGED <<caption_vars, DATA, json_file, csv_file, frame,
                 committed, author>>

\* One reviewer in one browser tab.
NextReview ==
  \/ \E s \in {1} :
       \/ load_first(s)
       \/ \E direction \in Directions, typed \in CaptionTexts \cup {Unedited} :
            \/ NavEmpty(s, direction, typed)
            \/ NavStore(s, direction, typed)
  \/ JsonOpen
  \/ JsonDump
  \/ CsvOpen
  \/ CsvRow
  \/ CsvClose
  \/ NavReturn
  \/ Interrupt

SpecReview == InitReview /\ [][NextReview]_vars

\* Several browser tabs on the one process: every tab has its own
\* state_holder and Textbox, all share DATA.
SharedTexts == {<<"a">>, Unedited}

\* A button of a tab is clicked after the page has loaded.
Click(s, direction, typed) == ui[s].loaded /\ NavStore(s, direction, typed)

NextShared ==
  \/ \E s \in Sessions :
       \/ load_first(s)
       \/ \E direction \in Directions, typed \in SharedTexts :
            Click(s, direction, typed)
  \/ JsonOpen
  \/ JsonDump
  \/ CsvOpen
  \/ CsvRow
  \/ CsvClose
  \/ NavReturn

\* Every tab starts from gr.State(0), line 225.
InitShared == InitReview /\ ui = [s \in Sessions |-> NewSession(0)]

SpecShared == InitShared /\ [][NextShared]_vars

\* ===========================================================================
\* Properties
\* ===========================================================================
InGeneration == {r \in Reqs : pc[r] = "generating"}

\* C1: at most one request is inside the model.generate step at any time.
C1_GenerationSerialized == Cardinality(InGeneration) <= 1

\* One request is inside generate while another request is in flight.
C1_Witness ==
  \E r, q \in Reqs : r # q /\ pc[r] = "generating" /\ pc[q] = "read"

\* C2: against collaborators that do not fail, every submitted request with a
\* decodable image eventually ends with a success response whose result is
\* the one its own image and task produce when run alone, and no success
\* response ever carries any other result.
C2_AllCompleteWithOwnResult ==
  /\ \A r \in Reqs :
       (pc[r] = "read") ~> (pc[r] = "done" /\ resp[r].status = 200)
  /\ [][\A r \in Reqs :
          (pc[r] # "done" /\ pc'[r] = "done")
            => resp'[r] = SuccessResponse(MODEL_ID, FormTask(req[r].task),
                   AloneResult(req[r].payload, FormTask(req[r].task)))]_vars

\* A request holds the result of its own input, computed while another
\* request with a different image and task was in flight.
C2_Witness ==
  \E r, q \in Reqs :
     /\ r # q
     /\ pc[r] = "return" /\ pc[q] = "read"
     /\ req[r].payload # req[q].payload
     /\ FormTask(req[r].task) # FormTask(req[q].task)
     /\ parsed[r] = AloneResult(req[r].payload, task[r])
     /\ parsed[r] # AloneResult(req[q].payload, task[q])


\* Names of the external calls made so far for request r, in order.
CallNames(r) == [i \in DOMAIN calls[r] |-> calls[r][i].fn]
LastCall(r) == CallNames(r)[Len(calls[r])]
PipelineCalls == {"processor", "generate", "batch_decode", "post_process"}
NoPipelineCall(r) == \A i \in DOMAIN calls[r] : calls[r][i].fn \notin PipelineCalls
InvalidImageDetails ==
  {<<"Invalid image: ", ReadErrorMessage>>}
    \cup {<<"Invalid image: ", DecodeErrorMessage(p)>> : p \in Payloads}

\* C3: a request whose read or decode fails ends with a 400 response whose
\* detail carries the failure message; an undecodable payload never reaches
\* the synchronous pipeline, and for a request answered 400 the processor,
\* model.generate, batch_decode and the post-processor were never invoked.
C3_DecodeFailureIs400 ==
  /\ [](\A r \in Reqs :
          /\ pc[r] \in SyncPcs => Decodable(req[r].payload)
          /\ resp[r].status = 400 => (pc[r] = "done" /\ NoPipelineCall(r)))
  /\ [][\A r \in Reqs :
          (pc[r] = "read" /\ pc'[r] = "done")
            => /\ resp'[r].status = 400
               /\ resp'[r].detail \in InvalidImageDetails
               /\ resp'[r].result = NoResult
               /\ \A i \in DOMAIN calls'[r] :
                     calls'[r][i].fn \notin PipelineCalls]_vars

\* A non-image payload was answered 400 after the decode attempt, and a
\* failed read was answered 400 without one.
C3_Witness ==
  \E r, q \in Reqs :
     /\ resp[r].status = 400 /\ CallNames(r) = <<"read", "decode">>
     /\ resp[r].detail = <<"Invalid image: ", "cannot identify image file">>
     /\ resp[q].status = 400 /\ CallNames(q) = <<"read">>

\* C4: once the image is decoded, a request that leaves the pipeline at any
\* stage before the return statement ends with a 500 response carrying a
\* non-empty message and no result: never a success, never a 400.
C4_LaterFailureIs500 ==
  [][\A r \in Reqs :
       (pc[r] \in SyncPcs \ {"return"} /\ pc'[r] = "done")
         => /\ resp'[r].status = 500
            /\ resp'[r].detail # <<>>
            /\ resp'[r].result = NoResult]_vars

\* One request failed in model.generate, another in the task parser.
C4_Witness ==
  \E r, q \in Reqs :
     /\ resp[r].status = 500 /\ LastCall(r) = "generate"
     /\ resp[q].status = 500 /\ LastCall(q) = "post_process"

PostAlignPcs == {"generate", "generating", "batch_decode", "post_process",
                 "return"}

\* C5: after the alignment pass every array of the bundle is on DEVICE; a
\* floating-point array has precision DTYPE and an integer array keeps the
\* element kind it had in the processor output.
C5_AlignedBundle ==
  /\ [](\A r \in Reqs : pc[r] \in PostAlignPcs =>
          \A k \in DOMAIN inputs[r] :
             /\ inputs[r][k].device = DEVICE
             /\ inputs[r][k].dtype \in FloatDtypes
                  => inputs[r][k].dtype = DTYPE)
  /\ [][\A r \in Reqs : (pc[r] = "align" /\ pc'[r] = "generate") =>
          \A k \in (DOMAIN inputs[r]) \cap (DOMAIN inputs'[r]) :
             /\ inputs'[r][k].device = DEVICE
             /\ inputs'[r][k].data = inputs[r][k].data
             /\ IF inputs[r][k].dtype \in FloatDtypes
                  THEN inputs'[r][k].dtype = DTYPE
                  ELSE inputs'[r][k].dtype = inputs[r][k].dtype]_vars

\* On the accelerator, a double-precision pixel array was cast to half
\* precision and the int32 token ids were moved without a cast.
C5_Witness ==
  \E r \in Reqs :
     /\ pc[r] = "generate"
     /\ DEVICE = "cuda"
     /\ DOMAIN inputs[r] = {"input_ids", "pixel_values"}
     /\ inputs[r]["pixel_values"].dtype = "float16"
     /\ inputs[r]["pixel_values"].device = "cuda"
     /\ inputs[r]["input_ids"].dtype = "int32"
     /\ inputs[r]["input_ids"].device = "cuda"

\* C6: the alignment pass preserves the key set of the processor output, in
\* whatever order the keys are visited: it never holds a key the processor
\* did not return, and the bundle bound at line 45 has exactly its keys.
C6_KeySetPreserved ==
  /\ [](\A r \in Reqs :
          pc[r] = "align" => DOMAIN cast_inputs[r] \subseteq DOMAIN inputs[r])
  /\ [][\A r \in Reqs : (pc[r] = "align" /\ pc'[r] = "generate") =>
          DOMAIN inputs'[r] = DOMAIN inputs[r]]_vars

\* An alignment pass over a three-key bundle visited the key the processor
\* returned last before the other two.
C6_Witness ==
  \E r \in Reqs :
     /\ pc[r] = "align"
     /\ Cardinality(DOMAIN inputs[r]) = 3
     /\ DOMAIN cast_inputs[r] = {"attention_mask"}

\* C7: the model is in half precision only on the accelerator: the pair
\* (DEVICE, DTYPE) is (cuda, float16) or (cpu, float32), the resident model
\* has that device and precision, and no step changes any of them.
C7_PrecisionFollowsDevice ==
  /\ [](/\ \/ (DEVICE = "cuda" /\ DTYPE = "float16")
           \/ (DEVICE = "cpu" /\ DTYPE = "float32")
        /\ model.device = DEVICE
        /\ model.dtype = DTYPE)
  /\ [][DEVICE' = DEVICE /\ DTYPE' = DTYPE /\ model' = model]_vars

\* A CPU service in single precision has answered caption requests, one of
\* them with an error.
C7_Witness ==
  /\ DEVICE = "cpu" /\ DTYPE = "float32"
  /\ \E r, q \in Reqs : resp[r].status = 200 /\ resp[q].status = 500

\* C8: in every state of the running service, with caption requests in
\* flight or failed, health is enabled and answers status ok with the
\* non-empty model identifier; every answer it has given is of that form, and
\* a health step changes nothing but the answer itself.
C8_HealthAlwaysOk ==
  /\ [](Serving => /\ ENABLED health
                   /\ HealthBody.status = "ok"
                   /\ HealthBody.model_id # ""
                   /\ HealthBody.model_id = MODEL_ID)
  /\ [](health_resp # NoHealth =>
          /\ health_resp.status = "ok"
          /\ health_resp.model_id # "")
  /\ [][health_resp' # health_resp =>
          UNCHANGED <<MODEL_ID, DEVICE, DTYPE, model, model_buf, pc, req,
                      task, image, inputs, cast_inputs, generated_ids,
                      generated_text, parsed, resp, calls>>]_vars

\* health answered ok while one request was inside generate and another had
\* already failed.
C8_Witness ==
  /\ health_resp.status = "ok"
  /\ \E r, q \in Reqs : pc[r] = "generating" /\ resp[q].status = 500

StageOrder == <<"read", "decode", "processor", "generate", "batch_decode",
                "post_process">>
IsPrefix(s, t) == Len(s) <= Len(t) /\ s = SubSeq(t, 1, Len(s))

\* C9: the calls made for one request are a prefix of read, decode,
\* processor, generate, batch_decode, post_process (each at most once, in
\* that order), and a request that has ended makes no further call and keeps
\* its response.
C9_NoRetry ==
  /\ [](\A r \in Reqs : IsPrefix(CallNames(r), StageOrder))
  /\ [][\A r \in Reqs : pc[r] = "done" =>
          /\ pc'[r] = "done"
          /\ calls'[r] = calls[r]
          /\ resp'[r] = resp[r]]_vars

\* A request ended when model.generate failed, after exactly one generate
\* call, and the service went on to complete another request.
C9_Witness ==
  \E r, q \in Reqs :
     /\ pc[r] = "done" /\ resp[r].status = 500
     /\ CallNames(r) = <<"read", "decode", "processor", "generate">>
     /\ pc[q] = "done" /\ resp[q].status = 200
     /\ CallNames(q) = StageOrder

\* Task strings handed to the processor and to the post-processor of r.
TaskArgs(r) ==
  {calls[r][i].arg :
     i \in {j \in DOMAIN calls[r] : calls[r][j].fn \in {"processor", "post_process"}}}

\* C10: a success response carries the model identifier and, as task, the
\* string the form supplied or <CAPTION> when it supplied none; that string
\* is the one the processor and the post-processor of the request were given.
C10_TaskEchoed ==
  /\ [](\A r \in Reqs : resp[r].status = 200 =>
          /\ resp[r].model_id = MODEL_ID
          /\ resp[r].model_id # ""
          /\ TaskArgs(r) = {resp[r].task})
  /\ [][\A r \in Reqs : (pc[r] = "return" /\ pc'[r] = "done") =>
          /\ resp'[r].status = 200
          /\ resp'[r].task = IF req[r].task = NoTask THEN "<CAPTION>"
                                                   ELSE req[r].task]_vars

\* One success response echoes a supplied task, another the default.
C10_Witness ==
  \E r, q \in Reqs :
     /\ resp[r].status = 200 /\ resp[r].task = "<OD>"
     /\ resp[q].status = 200 /\ resp[q].task = "<CAPTION>"
     /\ resp[r].model_id = MODEL_ID

\* C14: a request whose processor output lacks input_ids or pixel_values
\* never enters model.generate: from the generate call site its only step is
\* to end with an error response, without a generate call and without a
\* result.
C14_MissingKeyFailsBeforeGenerate ==
  /\ [](\A r \in Reqs :
          pc[r] \in {"generating", "batch_decode", "post_process", "return"}
            => {"input_ids", "pixel_values"} \subseteq DOMAIN inputs[r])
  /\ [][\A r \in Reqs :
          (/\ pc[r] = "generate"
           /\ ~({"input_ids", "pixel_values"} \subseteq DOMAIN inputs[r])
           /\ pc'[r] # pc[r])
            => /\ pc'[r] = "done"
               /\ resp'[r].status = 500
               /\ resp'[r].result = NoResult
               /\ model_buf' = model_buf
               /\ \A i \in DOMAIN calls'[r] : calls'[r][i].fn # "generate"]_vars

\* A request stands at the generate call site with a bundle that lacks
\* pixel_values, and another request was answered 500 after its processor
\* call, with no generate call.
C14_Witness ==
  \E r \in Reqs :
     /\ pc[r] = "generate"
     /\ DOMAIN inputs[r] = {"input_ids"}
     /\ \E q \in Reqs :
          /\ resp[q].status = 500
          /\ CallNames(q) = <<"read", "decode", "processor">>

\* C16 as stated: whenever one request is inside generate and another one has
\* its upload pending, the other can take its next step (decode the image or
\* end with the decode error).
C16_OtherRequestCanProgress ==
  \A r, q \in Reqs :
     (r # q /\ pc[r] = "generating" /\ pc[q] = "read")
       => ENABLED (DecodeOk(q) \/ DecodeFail(q) \/ ReadFail(q))

\* C16, amended: while one request is inside generate, every other request
\* is not yet submitted, awaiting its upload read, or finished; none is in
\* image decoding, tensorization or post-processing, and a request awaiting
\* its upload cannot resume before generate has returned or failed.
C16_OnlyUploadReadOverlaps ==
  \A r, q \in Reqs :
     (r # q /\ pc[r] = "generating")
       => /\ pc[q] \in {"idle", "read", "done"}
          /\ ~ENABLED (DecodeOk(q) \/ DecodeFail(q) \/ ReadFail(q))

\* A request with a non-image upload awaits its read while another request
\* is inside generate.
C16_Witness ==
  \E r, q \in Reqs :
     /\ r # q
     /\ pc[r] = "generating"
     /\ pc[q] = "read" /\ req[q].payload = "junk"
     /\ CallNames(q) = <<"read">>

\* ---------------------------------------------------------------------------
\* One request with a decodable image and any task string, recognized by the
\* parser or not, against a processor and a model that do not fail; the
\* external parser may accept or reject.
AllFormTasks == FormTasks \cup {"<NOT_A_TASK>"}

NextTasks ==
  \E r \in {1} :
     \/ \E payload \in ValidPayloads, form_task \in AllFormTasks :
          Submit(r, payload, form_task)
     \/ StepOk(r)
     \/ PostProcessFail(r)

SpecTasks == Init /\ [][NextTasks]_vars /\ WF_vars(StepOk(1))

\* C15: whatever its task string, a request with a decodable image reaches
\* the model.generate call; the processor and the external parser are handed
\* the task string of the form unchanged, and at the parser both outcomes
\* (a result, a rejection) are open for every task.
C15_TaskNotValidatedBeforeGenerate ==
  /\ \A r \in Reqs :
       (pc[r] = "read")
         ~> (\E i \in DOMAIN calls[r] : calls[r][i].fn = "generate")
  /\ [](\A r \in Reqs : pc[r] \notin {"idle", "done"} =>
          \A i \in DOMAIN calls[r] :
             calls[r][i].fn \in {"processor", "post_process"}
               => calls[r][i].arg = IF req[r].task = NoTask THEN "<CAPTION>"
                                                            ELSE req[r].task)
  /\ [](\A r \in Reqs : pc[r] = "post_process" =>
          (ENABLED PostProcessOk(r)) /\ (ENABLED PostProcessFail(r)))

\* A request with a task string no parser knows went through generate and
\* stands before the post-processor.
C15_Witness ==
  \E r \in Reqs :
     /\ pc[r] = "post_process"
     /\ req[r].task = "<NOT_A_TASK>"
     /\ task[r] = "<NOT_A_TASK>"
     /\ LastCall(r) = "batch_decode"
     /\ \E i \in DOMAIN calls[r] : calls[r][i].fn = "generate"


\* ---------------------------------------------------------------------------
\* Review tool: helpers of the properties.

Fields == {"image", "raw_caption", "final_caption"}

\* What row.get(key, "") reads from a record, for the three columns.
Proj(row) == [k \in Fields |-> Get(row, k)]

\* The records of a file, projected on the three columns.
ProjAll(rows) == [i \in DOMAIN rows |-> Proj(rows[i])]

NavStoring == frame.pc = "idle" /\ frame'.pc = "json_open"
NavReturning == frame.pc = "respond" /\ frame'.pc = "idle"

\* C11: no navigation step changes the raw_caption (nor the image) of a
\* record: in memory, in every record of the JSON file and in every row of the
\* CSV file it is the value that was loaded, whatever texts were submitted.
C11_RawCaptionNeverChanged ==
  /\ \A i \in DOMAIN DATA :
       /\ Get(DATA[i], "raw_caption") = Get(Item(i), "raw_caption")
       /\ Get(DATA[i], "image") = Get(Item(i), "image")
  /\ \A i \in DOMAIN json_file.rows :
       Get(json_file.rows[i], "raw_caption") = Get(Item(i), "raw_caption")
  /\ \A i \in DOMAIN csv_file.rows :
       Get(csv_file.rows[i], "raw_caption") = Get(Item(i), "raw_caption")

\* A step has completed that gave a record with a raw caption a different
\* final caption, and both files are written.
C11_Witness ==
  /\ committed.done
  /\ json_file.complete /\ csv_file.complete
  /\ \E i \in DOMAIN DATA :
       /\ Get(Item(i), "raw_caption") # <<>>
       /\ Get(DATA[i], "final_caption") # Get(Item(i), "raw_caption")
       /\ Get(csv_file.rows[i], "final_caption") = Get(DATA[i], "final_caption")
       /\ Len(csv_file.rows) = Len(DATA)

\* C12: when a navigation step on a non-empty list reaches its return, both
\* files have been written in full by this step and hold, record by record and
\* in order, the image, raw_caption and final_caption of the list in memory.
C12_BothFilesEqualMemory ==
  (frame.pc = "respond") =>
     /\ DATA # <<>>
     /\ json_file.complete /\ csv_file.complete
     /\ ProjAll(json_file.rows) = ProjAll(DATA)
     /\ ProjAll(csv_file.rows) = ProjAll(DATA)

\* An end step is at its return, the record it stored into differs from
\* what was loaded.
C12_Witness ==
  /\ frame.pc = "respond"
  /\ frame.direction = "end"
  /\ Len(DATA) = MaxRecords
  /\ Get(PyAt(DATA, frame.idx), "final_caption")
       # Get(PyAt(load_captions([i \in 1..Len(DATA) |-> Item(i)]), frame.idx),
             "final_caption")

\* The final captions a complete file holds.
Recover(file) == [i \in DOMAIN file.rows |-> Get(file.rows[i], "final_caption")]

\* C13: once a navigation step has completed, at every later point (in the
\* middle of a later step's writes and after the process is killed) one of
\* the two files is complete and holds the final captions of the last
\* completed step or those of the step in progress.
C13_CompletedEditsRecoverable ==
  committed.done =>
    \E file \in {json_file, csv_file} :
       /\ file.complete
       /\ Recover(file) \in {committed.finals, Finals(DATA)}

\* The process was killed while a later step had truncated the JSON file;
\* the completed step's edit is in the CSV file only.
C13_Witness ==
  /\ ~alive
  /\ committed.done
  /\ frame.pc = "json_dump"
  /\ ~json_file.complete
  /\ Finals(DATA) # committed.finals
  /\ Recover(csv_file) = committed.finals


\* The index of the record a step works on, from the index it was given:
\* below 0 it is 0, above the last record it is the last record.
Clamped(idx, n) == IF idx < 0 THEN 0 ELSE IF idx > n - 1 THEN n - 1 ELSE idx

\* r is t without its leading and trailing whitespace.
IsStripOf(t, r) ==
  \E a \in 1..(Len(t) + 1), b \in 0..Len(t) :
     /\ r = SubSeq(t, a, b)
     /\ \A i \in 1..(a - 1) : t[i] \in Whitespace
     /\ \A i \in (b + 1)..Len(t) : t[i] \in Whitespace
     /\ r # <<>> => (r[1] \notin Whitespace /\ r[Len(r)] \notin Whitespace)

\* C17: on a list of n > 0 records, whatever index a step was given, the index
\* nav returns is in 0..n-1: next moves one up and stays at n-1, prev moves
\* one down and stays at 0, first gives 0, last gives n-1, end gives the
\* clamped incoming index.
C17_ReturnedIndexInRange ==
  [][NavReturning =>
       LET n == Len(DATA)
           c == Clamped(ui[frame.s].idx, n)
           out == ui'[frame.s].idx
       IN /\ n > 0
          /\ out \in 0..(n - 1)
          /\ frame.direction = "next" => out = (IF c = n - 1 THEN n - 1 ELSE c + 1)
          /\ frame.direction = "prev" => out = (IF c = 0 THEN 0 ELSE c - 1)
          /\ frame.direction = "first" => out = 0
          /\ frame.direction = "last" => out = n - 1
          /\ frame.direction = "end" => out = c]_vars

\* A prev step given an index below 0 on a full list is at its return.
C17_Witness ==
  /\ frame.pc = "respond"
  /\ frame.direction = "prev"
  /\ ui[frame.s].idx < 0
  /\ Len(DATA) = MaxRecords

\* C18: a navigation step on a non-empty list stores the submitted text
\* without its leading and trailing whitespace into final_caption of the
\* record at the clamped incoming index, keeps the other fields of that record
\* and leaves every other record as it was.
C18_StoresStrippedTextAtClampedIndex ==
  [][NavStoring =>
       LET pos == Clamped(ui[frame'.s].idx, Len(DATA)) + 1
       IN /\ DOMAIN DATA' = DOMAIN DATA
          /\ pos \in DOMAIN DATA
          /\ IsStripOf(frame'.caption_text, DATA'[pos]["final_caption"])
          /\ DOMAIN DATA'[pos] = DOMAIN DATA[pos] \cup {"final_caption"}
          /\ \A k \in DOMAIN DATA[pos] \ {"final_caption"} :
                DATA'[pos][k] = DATA[pos][k]
          /\ \A i \in DOMAIN DATA \ {pos} : DATA'[i] = DATA[i]]_vars

\* A next step that leaves the first record for the second has stored a text
\* that had whitespace to remove.
C18_Witness ==
  /\ frame.pc = "json_open"
  /\ frame.direction = "next"
  /\ frame.idx = 0
  /\ Len(DATA) > 1
  /\ frame.caption_text # <<>>
  /\ frame.caption_text[Len(frame.caption_text)] \in Whitespace
  /\ Get(DATA[1], "final_caption") # frame.caption_text
  /\ Get(DATA[1], "final_caption") # <<>>

\* C19: an end step on a non-empty list has saved the edit to both files,
\* returns the clamped incoming index and five disabled buttons; every other
\* step on a non-empty list returns five enabled buttons; on an empty list no
\* step writes a file and every response of the running process has five
\* disabled buttons and the index it was given.
C19_EndDisablesButtons ==
  [][/\ (NavReturning /\ frame.direction = "end") =>
          LET c == Clamped(ui[frame.s].idx, Len(DATA))
          IN /\ ui'[frame.s].buttons = <<FALSE, FALSE, FALSE, FALSE, FALSE>>
             /\ ui'[frame.s].idx = c
             /\ json_file.complete /\ csv_file.complete
             /\ Get(json_file.rows[c + 1], "final_caption")
                  = Get(DATA[c + 1], "final_caption")
             /\ Get(csv_file.rows[c + 1], "final_caption")
                  = Get(DATA[c + 1], "final_caption")
     /\ (NavReturning /\ frame.direction # "end") =>
          ui'[frame.s].buttons = <<TRUE, TRUE, TRUE, TRUE, TRUE>>
     /\ DATA = <<>> =>
          /\ json_file' = json_file
          /\ csv_file' = csv_file
          /\ \A s \in Sessions :
               (alive' /\ ui'[s] # ui[s]) =>
                 /\ ui'[s].buttons = <<FALSE, FALSE, FALSE, FALSE, FALSE>>
                 /\ ui'[s].idx = ui[s].idx]_vars

\* An end step on a non-empty list has returned: the page has five disabled
\* buttons and the files are written.
C19_Witness ==
  /\ DATA # <<>>
  /\ frame.pc = "idle"
  /\ committed.done
  /\ ui[1].loaded
  /\ ui[1].buttons = <<FALSE, FALSE, FALSE, FALSE, FALSE>>
  /\ csv_file.complete


\* C20: with several sessions on the one record list, a navigation step of a
\* session whose user did not edit the caption box never changes the
\* final_caption that another session's edit has saved to a record.
C20_EditNotOverwrittenByOtherSession ==
  [][(NavStoring /\ ~frame'.edited) =>
       \A i \in DOMAIN DATA :
          author[i] \notin {0, frame'.s} =>
            Get(DATA'[i], "final_caption") = Get(DATA[i], "final_caption")]_vars

====
